---- MODULE Spec2Model ----
(***************************************************************************)
(* Model of the Sid Voice connection manager of the SimpliDev browser      *)
(* extension (src/src/sidVoiceConnection.ts) together with the browser     *)
(* events its owner (src/unnamed/part_000, TabShareExtension) reacts to.   *)
(*                                                                         *)
(* Every JavaScript task (an event handler or the continuation of an       *)
(* await on a browser call) runs to its next await without interleaving,   *)
(* so each such run is one action.  A browser call takes effect when it is *)
(* issued (the browser serves the calls of one extension in order); the    *)
(* continuation that receives its result is a later action.                *)
(***************************************************************************)
EXTENDS Integers, Sequences, FiniteSets, TLC

\* ---------------------------------------------------------------- bounds
MaxSockets == 2          \* WebSocket objects alive at the same time
MaxAttempts == 7         \* cap of the reconnect attempt counter
MaxPendingConnects == 1  \* connect() calls suspended in storage.local.set
MaxAttemptsBusy == 1     \* cap of the attempt counter where commands are handled too
MaxLiveBusy == 1         \* WebSocket objects not yet closed, where commands are handled too
MaxCmds == 1             \* commands being handled at the same time
MaxCmdsAttach == 2       \* the same, where the connection stays as it is
MaxAdds == 2             \* addListener calls that are told apart
MaxTabs == 2             \* tabs the browser ever holds (tab ids are never reused)

\* The tabs one answer of chrome.tabs.query holds at most.
MaxListTabs == 5

\* The length of the texts given to _type.
MaxTextLen == 3

\* The tabs of the relay mode, and the relay connections ever made.
MaxRelayTabs == 3
MaxRelayConns == 2

\* ------------------------------------------------------ program constants
NormalClosure == 1000    \* close code of disconnect(), tested by onclose
BackoffBaseMs == 1000    \* Math.pow(2, attempts) * 1000
BackoffCapMs == 30000    \* Math.min(..., 30000)

\* Close codes the remote side or the network can produce: normal closure,
\* going away (1001), abnormal closure (1006: no close frame, the connection
\* was lost or never made).
Abnormal == {1006}
CloseCodes == {NormalClosure, 1001} \cup Abnormal

Slots == 1..MaxSockets
Tabs == 1..MaxTabs
\* command.tabId: a tab id, or 0 for a command frame that carries none.
TabArgs == {0} \cup Tabs
\* The tabs showing a page of a privileged scheme (chrome:, edge:,
\* devtools:): the tab open when the extension starts shows chrome://extensions,
\* the tabs navigate creates show the page they were sent to.
PrivTabs == {1}
CmdSlots == 1..MaxCmdsAttach
\* Correlation ids the remote side stamps on its commands.
CorrIds == {"a", "b"}
\* command.type values; "frobnicate" stands for every kind the switch of
\* _handleCommand does not know.
Kinds == {"navigate", "getTabs", "selectTab", "click", "type", "snapshot",
          "screenshot", "frobnicate"}
AttachKinds == {"click", "type", "snapshot"}
\* Values of this._email: "" is the unset identity the object is built with,
\* "u" an identity.  Every caller of connect() passes a non-empty identity.
Emails == {"", "u"}
Identities == Emails \ {""}
\* Inbound frames that are not commands: data.type 'pong', data.type
\* 'registered', and a frame JSON.parse (or the read of data.type) throws on.
FrameTypes == {"pong", "registered", "malformed"}

VARIABLES
  socks,             \* slot -> state of the WebSocket object living there
  ws,                \* this._ws: a slot, or 0 for null
  email,             \* this._email
  reconnectAttempts, \* this._reconnectAttempts
  reconnectTimer,    \* this._reconnectTimer is a handle (TRUE) or null
  pingTimer,         \* this._pingTimer is a handle (TRUE) or null
  rtArmed,           \* reconnect timeouts armed in the browser
  ptArmed,           \* keepalive intervals armed in the browser
  connectPending,    \* connect() calls awaiting chrome.storage.local.set
  lastStatus,        \* last value given to onStatusChange
  statusBy,          \* the handler that made the last onStatusChange call
  statusEmail,       \* the identity of the last onStatusChange call, "" for none
  lastFrame,         \* the last inbound frame that was not a command
  wire,              \* last frame the manager put on a transport
  delays,            \* delays (ms) of the reconnects scheduled since the last open
  userDisconnected,  \* disconnect() was called and connect() not since
  connectedTabId,    \* this._connectedTabId, 0 for null
  debuggee,          \* this._debuggee.tabId, 0 for none
  eventListener,     \* this._eventListener is set
  tabsOpen,          \* tabs open in the browser
  tabsGone,          \* tabs that were closed
  attached,          \* tabs the browser holds a debugger session of this extension for
  cmds               \* command slot -> the command received there and where its handling stands

connVars == <<socks, ws, email, reconnectAttempts, reconnectTimer, pingTimer,
              rtArmed, ptArmed, connectPending, lastStatus, statusBy, statusEmail,
              lastFrame, wire, delays, userDisconnected>>

bindVars == <<connectedTabId, debuggee, eventListener, tabsOpen, tabsGone, attached>>

VARIABLES
  queryTabs,         \* _getTabs: what chrome.tabs.query({}) resolved with
  listing,           \* _getTabs: the data of the response it returns
  typeText,          \* _type: its text argument
  typeLiteral,       \* _type: what it splices between the quotes of el.value = '...'
  typeParsed,        \* _type: how the page reads that string literal
  fnPc               \* where the one call of _getTabs or _type followed alone stands

fnVars == <<queryTabs, listing, typeText, typeLiteral, typeParsed, fnPc>>

VARIABLES
  pendingTabSelection, \* TabShareExtension._pendingTabSelection, in the order of the Map
  relayConns,          \* relay connection -> its state, its onclose handler, its close() calls
  relayTimers,         \* relay connection -> time left of the timer armed for its entry, -1 for none
  activeConnection,    \* TabShareExtension._activeConnection, 0 for undefined
  relayConnectedTabId, \* TabShareExtension._connectedTabId, 0 for null
  connectTab,          \* the _connectTab call in progress and the await it is at
  activeTab,           \* the tab the last chrome.tabs.onActivated event named, 0 for none
  relayTabsGone        \* the tabs chrome.tabs.onRemoved was delivered for

VARIABLES
  ensured,             \* the bound tab the last _ensureDebuggerAttached returned for, 0 once rebound
  ensuredTwice,        \* a later _ensureDebuggerAttached was called for that tab, still bound
  listeners,           \* listeners of this object chrome.debugger.onEvent holds
  listenerAdds,        \* chrome.debugger.onEvent.addListener calls made so far, at most MaxAdds counted
  lastEvent,           \* the last debugger event given to the listener: its tab, and whether it was logged
  route                \* command slot -> whether this._ws is still the socket its command arrived on,
                       \* and once the response was sent, whether it went out on that socket

obsVars == <<ensured, ensuredTwice, listeners, listenerAdds, lastEvent, route>>

relayVars == <<pendingTabSelection, relayConns, relayTimers, activeConnection,
               relayConnectedTabId, connectTab, activeTab, relayTabsGone>>

vars == <<connVars, bindVars, cmds, fnVars, relayVars, obsVars>>

Min(a, b) == IF a <= b THEN a ELSE b

\* A WebSocket object: FREE is a slot holding none.  ABORTED is an object
\* closed by the client before it opened (readyState CLOSING, the connection
\* is failed); CLOSING one closed by the client after it opened.
SockStates == {"FREE", "CONNECTING", "OPEN", "CLOSING", "ABORTED", "CLOSED"}
LiveStates == {"CONNECTING", "OPEN", "CLOSING", "ABORTED"}

\* readyState === WebSocket.OPEN of this._ws
WsOpen == ws # 0 /\ socks[ws] = "OPEN"

\* isConnected getter
isConnected == WsOpen

\* The codes the close event of a socket in state st can carry.  A handshake
\* that never completed (failed, or aborted by close()) ends with 1006; an
\* open or closing connection ends with the code of the peer's close frame or
\* with 1006 when the connection is lost.
ClosableWith(st) ==
  CASE st = "CONNECTING" -> Abnormal
    [] st = "ABORTED"    -> Abnormal
    [] st = "OPEN"       -> CloseCodes
    [] st = "CLOSING"    -> {NormalClosure} \cup Abnormal
    [] OTHER             -> {}

\* A backoff that forgets the cap.
BackoffDelayUncapped(attempts) == (2 ^ attempts) * BackoffBaseMs

\* delay = Math.min(Math.pow(2, attempts) * 1000, 30000)
BackoffDelay(attempts) == Min((2 ^ attempts) * BackoffBaseMs, BackoffCapMs)

\* The socket table once this._ws lets go of the object it refers to: a closed
\* object nobody refers to is gone.
Dropped(ss, w) == IF w # 0 /\ ss[w] = "CLOSED" THEN [ss EXCEPT ![w] = "FREE"] ELSE ss

\* _send(data): the frame goes out only on an open this._ws.
Send(frame) == wire' = IF WsOpen THEN frame ELSE wire

\* this.onStatusChange?.(connected, email), called by the handler named by
\* (an omitted email is "")
Notify(connected, e, by) ==
  /\ lastStatus' = IF connected THEN "connected" ELSE "disconnected"
  /\ statusEmail' = e
  /\ statusBy' = by

\* _stopPing()
StopPing ==
  /\ pingTimer' = FALSE
  /\ ptArmed' = IF pingTimer THEN ptArmed - 1 ELSE ptArmed

\* A _startPing that arms a new interval without clearing the one it holds.
StartPingNoStop ==
  /\ pingTimer' = TRUE
  /\ ptArmed' = ptArmed + 1

\* _startPing(): _stopPing(), then setInterval
StartPing ==
  /\ pingTimer' = TRUE
  /\ ptArmed' = (IF pingTimer THEN ptArmed - 1 ELSE ptArmed) + 1

\* _scheduleReconnect()
ScheduleReconnect ==
  IF reconnectTimer
  THEN UNCHANGED <<reconnectTimer, rtArmed, reconnectAttempts, delays>>
  ELSE /\ reconnectAttempts < MaxAttempts
       /\ delays' = Append(delays, BackoffDelay(reconnectAttempts))
       /\ reconnectAttempts' = reconnectAttempts + 1
       /\ reconnectTimer' = TRUE
       /\ rtArmed' = rtArmed + 1

\* _doConnect(): this._ws = new WebSocket(wsUrl), handlers attached.  The
\* object this._ws referred to before is neither closed nor detached.
DoConnect ==
  LET ss == Dropped(socks, ws)
      free == {s \in Slots : ss[s] = "FREE"}
  IN /\ free # {}
     /\ LET s == CHOOSE x \in free : \A y \in free : x <= y
        IN /\ socks' = [ss EXCEPT ![s] = "CONNECTING"]
           /\ ws' = s

\* ------------------------------------------------------------- commands

\* BrowserResponse before it is sent: success, error (a message in parts, <<>>
\* for none) and the tabId its data carries (0 for none).
NoRes == [success |-> FALSE, error |-> <<>>, tabId |-> 0]

\* A success response that lost its data.
OkNoData(tid) == [success |-> TRUE, error |-> <<>>, tabId |-> 0]

\* { type: 'response', success: true, data }: tid is the tab id in data
Ok(tid) == [success |-> TRUE, error |-> <<>>, tabId |-> tid]

\* An error response that lost its message.
ErrNoMessage(msg) == [success |-> FALSE, error |-> <<>>, tabId |-> 0]

\* { type: 'response', success: false, error: msg }
Err(msg) == [success |-> FALSE, error |-> msg, tabId |-> 0]

\* The message of an error a browser call rejected with; the catch of
\* _handleCommand passes it on as it is.
BrowserError == <<"browser error">>

\* The error of the command methods that need a bound tab.
NoTabConnected == <<"No tab connected">>

\* `Unknown command: ${command.type}`
UnknownCommand(k) == <<"Unknown command: ", k>>

\* An unused command slot.
IdleCmd == [id |-> "", pc |-> "idle", tab |-> 0, resp |-> 0, res |-> NoRes]

\* The slots no command is being handled in.
FreeCmdSlots == {c \in CmdSlots : cmds[c].pc \in {"idle", "done"}}

\* The slot the next command frame lands in.
NextCmdSlot == CHOOSE c \in FreeCmdSlots : \A d \in FreeCmdSlots : c <= d

\* The response res of _handleCommand, stamped with the command's id and
\* handed to _send; sent tells whether _send found this._ws open.
Done(cmd, res, sent) ==
  [IdleCmd EXCEPT !.pc = "done", !.id = cmd.id, !.resp = IF sent THEN 1 ELSE 0,
                  !.res = res]

\* A response sent without looking at the transport's readyState.
RespondAlways(c, cmd, res) ==
  /\ cmds' = [cmds EXCEPT ![c] = Done(cmd, res, TRUE)]
  /\ wire' = [type |-> "response", id |-> cmd.id]

\* response.id = data.id; this._send(response)
Respond(c, cmd, res) ==
  /\ cmds' = [cmds EXCEPT ![c] = Done(cmd, res, WsOpen)]
  /\ Send([type |-> "response", id |-> cmd.id])

\* chrome.debugger.sendCommand(this._debuggee, ...): the pc its await is left at
EvalCall(dbg, att) == IF dbg # 0 /\ dbg \in att THEN "act_eval_ok" ELSE "act_eval_err"

\* _ensureDebuggerAttached from line 360: this._debuggee = {tabId: this._connectedTabId};
\* chrome.debugger.attach(this._debuggee, '1.3') is issued
AttachCall(ct, open, att) ==
  IF ct # 0 /\ ct \in open /\ ct \notin att
  THEN [pc |-> "ens_attach_ok", dbg |-> ct, att |-> att \cup {ct}]
  ELSE [pc |-> "ens_attach_err", dbg |-> ct, att |-> att]

\* An _ensureDebuggerAttached without the check of line 351: it detaches and
\* attaches whenever it is called.
EnsureStartAnew(ct, dbg, open, att) ==
  IF dbg # 0 THEN [pc |-> "ens_detach", dbg |-> dbg, att |-> att \ {dbg}]
  ELSE AttachCall(ct, open, att)

\* _ensureDebuggerAttached from its start, for a bound tab ct # 0
EnsureStart(ct, dbg, open, att) ==
  IF dbg = ct THEN [pc |-> EvalCall(dbg, att), dbg |-> dbg, att |-> att]
  ELSE IF dbg # 0 THEN [pc |-> "ens_detach", dbg |-> dbg, att |-> att \ {dbg}]
  ELSE AttachCall(ct, open, att)

\* The tab chrome.tabs.create opens.
FreshTab == CHOOSE t \in Tabs \ (tabsOpen \cup tabsGone) :
              \A u \in Tabs \ (tabsOpen \cup tabsGone) : t <= u

\* The pcs of a command that awaits chrome.debugger.sendCommand.
EvalPcs == {"act_eval_ok", "act_eval_err"}

\* The pcs of a command that awaits chrome.debugger.attach.
AttachPcs == {"ens_attach_ok", "ens_attach_err"}

\* A registration that does not look whether a listener is there.
AddListenerAlways(el, n) == Min(n + 1, MaxAdds)

\* if (!this._eventListener) { ...; chrome.debugger.onEvent.addListener(...) }:
\* n counts listeners or calls, el is this._eventListener
AddListener(el, n) == IF el THEN n ELSE Min(n + 1, MaxAdds)

\* A bound-tab check that never finds the tab missing.
NoTabNever == FALSE

\* !this._connectedTabId
NoTab == connectedTabId = 0

\* onmessage of the socket in slot s for a command frame of kind k, id i and
\* tabId t, up to the first await of its handling on a browser call
RecvCommandStep(s, k, i, t) ==
  /\ socks[s] = "OPEN"
  /\ FreeCmdSlots # {}
  /\ LET c == NextCmdSlot
         cmd == [id |-> i, pc |-> "start", tab |-> 0, resp |-> 0, res |-> NoRes]
     IN CASE k = "navigate" ->
               IF connectedTabId # 0
               THEN /\ cmds' = [cmds EXCEPT ![c] =
                          [cmd EXCEPT !.pc = IF connectedTabId \in tabsOpen
                                             THEN "nav_upd_ok" ELSE "nav_upd_err"]]
                    /\ UNCHANGED <<wire, bindVars>>
               ELSE /\ Tabs \ (tabsOpen \cup tabsGone) # {}
                    /\ cmds' = [cmds EXCEPT ![c] =
                          [cmd EXCEPT !.pc = "nav_created", !.tab = FreshTab]]
                    /\ tabsOpen' = tabsOpen \cup {FreshTab}
                    /\ UNCHANGED <<wire, connectedTabId, debuggee, eventListener,
                                   tabsGone, attached>>
          [] k = "getTabs" ->
               /\ cmds' = [cmds EXCEPT ![c] = [cmd EXCEPT !.pc = "tabs_query"]]
               /\ UNCHANGED <<wire, bindVars>>
          [] k = "selectTab" ->
               IF t = 0
               THEN /\ Respond(c, cmd, Err(BrowserError))
                    /\ UNCHANGED bindVars
               ELSE /\ cmds' = [cmds EXCEPT ![c] =
                          [cmd EXCEPT !.pc = IF t \in tabsOpen
                                             THEN "sel_get_ok" ELSE "sel_get_err",
                                      !.tab = t]]
                    /\ UNCHANGED <<wire, bindVars>>
          [] k \in AttachKinds ->
               IF NoTab
               THEN /\ Respond(c, cmd, Err(NoTabConnected))
                    /\ UNCHANGED bindVars
               ELSE LET e == EnsureStart(connectedTabId, debuggee, tabsOpen, attached)
                    IN /\ cmds' = [cmds EXCEPT ![c] = [cmd EXCEPT !.pc = e.pc]]
                       /\ debuggee' = e.dbg
                       /\ attached' = e.att
                       /\ UNCHANGED <<wire, connectedTabId, eventListener, tabsOpen, tabsGone>>
          [] k = "screenshot" ->
               IF NoTab
               THEN /\ Respond(c, cmd, Err(NoTabConnected))
                    /\ UNCHANGED bindVars
               ELSE /\ cmds' = [cmds EXCEPT ![c] = [cmd EXCEPT !.pc = "shot"]]
                    /\ UNCHANGED <<wire, bindVars>>
          [] OTHER ->
               /\ Respond(c, cmd, Err(UnknownCommand(k)))
               /\ UNCHANGED bindVars
  /\ UNCHANGED <<fnVars, relayVars, socks, ws, email, reconnectAttempts, reconnectTimer, pingTimer,
                 rtArmed, ptArmed, connectPending, lastStatus, statusBy, statusEmail,
                 lastFrame, delays, userDisconnected>>

\* The continuation of command c after the browser call it awaited, up to its
\* next await or to its response
CmdResumeStep(c) ==
  /\ LET cmd == cmds[c]
     IN CASE cmd.pc = "nav_upd_ok" ->
               Respond(c, cmd, Ok(connectedTabId)) /\ UNCHANGED bindVars
          [] cmd.pc = "nav_created" ->
               /\ connectedTabId' = cmd.tab
               /\ Respond(c, cmd, Ok(cmd.tab))
               /\ UNCHANGED <<debuggee, eventListener, tabsOpen, tabsGone, attached>>
          [] cmd.pc = "tabs_query" ->
               Respond(c, cmd, Ok(connectedTabId)) /\ UNCHANGED bindVars
          [] cmd.pc = "sel_get_ok" ->
               /\ connectedTabId' = cmd.tab
               /\ cmds' = [cmds EXCEPT ![c] =
                     [cmd EXCEPT !.pc = IF cmd.tab \in tabsOpen
                                        THEN "sel_upd_ok" ELSE "sel_upd_err"]]
               /\ UNCHANGED <<wire, debuggee, eventListener, tabsOpen, tabsGone, attached>>
          [] cmd.pc = "sel_upd_ok" ->
               /\ cmds' = [cmds EXCEPT ![c] = [cmd EXCEPT !.pc = "sel_window"]]
               /\ UNCHANGED <<wire, bindVars>>
          [] cmd.pc = "sel_window" ->
               Respond(c, cmd, Ok(cmd.tab)) /\ UNCHANGED bindVars
          [] cmd.pc = "ens_detach" ->
               LET a == AttachCall(connectedTabId, tabsOpen, attached)
               IN /\ cmds' = [cmds EXCEPT ![c] = [cmd EXCEPT !.pc = a.pc]]
                  /\ debuggee' = a.dbg
                  /\ attached' = a.att
                  /\ UNCHANGED <<wire, connectedTabId, eventListener, tabsOpen, tabsGone>>
          [] cmd.pc = "ens_attach_ok" ->
               /\ eventListener' = TRUE
               /\ cmds' = [cmds EXCEPT ![c] = [cmd EXCEPT !.pc = EvalCall(debuggee, attached)]]
               /\ UNCHANGED <<wire, connectedTabId, debuggee, tabsOpen, tabsGone, attached>>
          [] cmd.pc = "act_eval_ok" ->
               Respond(c, cmd, Ok(0)) /\ UNCHANGED bindVars
          [] cmd.pc = "shot" ->
               \E r \in {Ok(0), Err(BrowserError)} : Respond(c, cmd, r) /\ UNCHANGED bindVars
          [] cmd.pc \in {"nav_upd_err", "sel_get_err", "sel_upd_err", "ens_attach_err",
                         "act_eval_err"} ->
               Respond(c, cmd, Err(BrowserError)) /\ UNCHANGED bindVars
          [] OTHER -> FALSE
  /\ UNCHANGED <<fnVars, relayVars, socks, ws, email, reconnectAttempts, reconnectTimer, pingTimer,
                 rtArmed, ptArmed, connectPending, lastStatus, statusBy, statusEmail,
                 lastFrame, delays, userDisconnected>>

\* onmessage for a command frame, where what the attach calls did is not recorded
RecvCommand(s, k, i, t) == RecvCommandStep(s, k, i, t) /\ UNCHANGED obsVars

\* onmessage for a command frame; ensured records an _ensureDebuggerAttached
\* that returns at its check of line 351
RecvCommandObserved(s, k, i, t) ==
  /\ RecvCommandStep(s, k, i, t)
  /\ ensured' = IF k \in AttachKinds /\ ~NoTab /\ debuggee = connectedTabId
                THEN connectedTabId ELSE ensured
  /\ ensuredTwice' = IF k \in AttachKinds /\ ~NoTab
                     THEN ensured = connectedTabId ELSE ensuredTwice
  /\ UNCHANGED <<listeners, listenerAdds, lastEvent, route>>

\* The continuation of command c, where what the attach calls did is not recorded
CmdResume(c) == CmdResumeStep(c) /\ UNCHANGED obsVars

\* The continuation of command c; ensured records an _ensureDebuggerAttached
\* that returns after its attach and forgets the tab on a rebinding, and
\* listeners and listenerAdds record the registration of lines 364-371
CmdResumeObserved(c) ==
  /\ CmdResumeStep(c)
  /\ ensured' = CASE cmds[c].pc = "nav_created" -> 0
                  [] cmds[c].pc = "sel_get_ok" ->
                       IF cmds[c].tab = connectedTabId THEN ensured ELSE 0
                  [] cmds[c].pc = "ens_attach_ok" ->
                       IF debuggee = connectedTabId THEN connectedTabId ELSE ensured
                  [] OTHER -> ensured
  /\ ensuredTwice' = (ensuredTwice /\ ensured' = ensured)
  /\ listeners' = IF cmds[c].pc = "ens_attach_ok"
                  THEN AddListener(eventListener, listeners) ELSE listeners
  /\ listenerAdds' = IF cmds[c].pc = "ens_attach_ok"
                     THEN AddListener(eventListener, listenerAdds) ELSE listenerAdds
  /\ UNCHANGED <<lastEvent, route>>

\* What route records of a command whose handling stands at cmd, when before
\* the step it recorded r: the response this._send put on this._ws went out on
\* the socket the command arrived on, or on another one.
RouteOf(cmd, r) ==
  IF cmd.pc # "done" THEN r
  ELSE IF cmd.resp = 0 THEN "none"
  ELSE IF r = "same" THEN "sent_same" ELSE "sent_other"

\* What route records once this._ws was given another object or null.
Rerouted == [c \in CmdSlots |-> IF route[c] = "same" THEN "changed" ELSE route[c]]

\* onmessage for a command frame; route records whether the socket s it
\* arrived on is this._ws
RecvCommandTraced(s, k, i, t) ==
  /\ RecvCommandStep(s, k, i, t)
  /\ route' = [route EXCEPT ![NextCmdSlot] =
                  RouteOf(cmds'[NextCmdSlot], IF s = ws THEN "same" ELSE "changed")]
  /\ UNCHANGED <<ensured, ensuredTwice, listeners, listenerAdds, lastEvent>>

\* The continuation of command c; route records the socket of its response
CmdResumeTraced(c) ==
  /\ CmdResumeStep(c)
  /\ route' = [route EXCEPT ![c] = RouteOf(cmds'[c], route[c])]
  /\ UNCHANGED <<ensured, ensuredTwice, listeners, listenerAdds, lastEvent>>

\* An onmessage that takes a registered frame for the moment the connection
\* is made and tells the observers.
RecvFrameNotifying(s, f) ==
  /\ socks[s] = "OPEN"
  /\ lastFrame' = f
  /\ IF f = "registered"
     THEN Notify(TRUE, email, "registered")
     ELSE UNCHANGED <<lastStatus, statusBy, statusEmail>>
  /\ UNCHANGED <<fnVars, relayVars, obsVars, socks, ws, email, reconnectAttempts, reconnectTimer, pingTimer,
                 rtArmed, ptArmed, connectPending, wire, delays, userDisconnected,
                 bindVars, cmds>>

\* An onmessage that gives up the transport when it cannot parse a frame.
RecvFrameFatal(s, f) ==
  /\ socks[s] = "OPEN"
  /\ lastFrame' = f
  /\ socks' = IF f = "malformed" THEN [socks EXCEPT ![s] = "CLOSING"] ELSE socks
  /\ UNCHANGED <<fnVars, relayVars, obsVars, ws, email, reconnectAttempts, reconnectTimer, pingTimer,
                 rtArmed, ptArmed, connectPending, lastStatus, statusBy, statusEmail,
                 wire, delays, userDisconnected, bindVars, cmds>>

\* onmessage of the socket in slot s for a frame that is not a command: a
\* pong and a registered frame are at most logged, a malformed one throws
\* inside the try and is logged by the catch
RecvFrame(s, f) ==
  /\ socks[s] = "OPEN"
  /\ lastFrame' = f
  /\ UNCHANGED <<fnVars, relayVars, obsVars, socks, ws, email, reconnectAttempts, reconnectTimer, pingTimer,
                 rtArmed, ptArmed, connectPending, lastStatus, statusBy, statusEmail,
                 wire, delays, userDisconnected, bindVars, cmds>>

\* A _cleanup that forgets this._connectedTabId = null.
CleanupKeepsTab ==
  /\ eventListener' = FALSE
  /\ debuggee' = 0
  /\ attached' = IF debuggee # 0 THEN attached \ {debuggee} ELSE attached
  /\ UNCHANGED connectedTabId

\* _cleanup()
Cleanup ==
  /\ eventListener' = FALSE
  /\ debuggee' = 0
  /\ attached' = IF debuggee # 0 THEN attached \ {debuggee} ELSE attached
  /\ connectedTabId' = 0

\* ----------------------------------------------------------- connection

\* connect(email, useStaging) up to its await of chrome.storage.local.set
ConnectCall(e) ==
  /\ connectPending < MaxPendingConnects
  /\ email' = e
  /\ connectPending' = connectPending + 1
  /\ userDisconnected' = FALSE
  /\ UNCHANGED <<fnVars, relayVars, obsVars, socks, ws, reconnectAttempts, reconnectTimer, pingTimer,
                 rtArmed, ptArmed, lastStatus, statusBy, statusEmail, lastFrame, wire,
                 delays, bindVars, cmds>>

\* connect() resumed after storage.local.set: return this._doConnect()
ConnectResumeStep ==
  /\ connectPending > 0
  /\ connectPending' = connectPending - 1
  /\ DoConnect
  /\ UNCHANGED <<fnVars, relayVars, email, reconnectAttempts, reconnectTimer, pingTimer,
                 rtArmed, ptArmed, lastStatus, statusBy, statusEmail, lastFrame, wire,
                 delays, userDisconnected,
                 bindVars, cmds>>

\* connect() resumed, where the socket of the commands is not recorded
ConnectResume == ConnectResumeStep /\ UNCHANGED obsVars

\* connect() resumed; this._ws is a new socket for every command in hand
ConnectResumeTraced ==
  /\ ConnectResumeStep
  /\ route' = Rerouted
  /\ UNCHANGED <<ensured, ensuredTwice, listeners, listenerAdds, lastEvent>>

\* connect() whose storage.local.set rejected: the call fails, nothing opens
ConnectStorageFail ==
  /\ connectPending > 0
  /\ connectPending' = connectPending - 1
  /\ UNCHANGED <<fnVars, relayVars, obsVars, socks, ws, email, reconnectAttempts, reconnectTimer, pingTimer,
                 rtArmed, ptArmed, lastStatus, statusBy, statusEmail, lastFrame, wire,
                 delays, userDisconnected,
                 bindVars, cmds>>

\* An onopen that tells the observers nothing.
OnOpenSilent(s) ==
  /\ socks[s] = "CONNECTING"
  /\ socks' = [socks EXCEPT ![s] = "OPEN"]
  /\ reconnectAttempts' = 0
  /\ delays' = <<>>
  /\ wire' = IF ws # 0 /\ socks'[ws] = "OPEN" THEN [type |-> "register", id |-> ""] ELSE wire
  /\ StartPing
  /\ UNCHANGED <<fnVars, relayVars, obsVars, ws, email, reconnectTimer, rtArmed, connectPending, userDisconnected,
                 lastStatus, statusBy, statusEmail, lastFrame, bindVars, cmds>>

\* onopen of the socket in slot s
OnOpen(s) ==
  /\ socks[s] = "CONNECTING"
  /\ socks' = [socks EXCEPT ![s] = "OPEN"]
  /\ reconnectAttempts' = 0
  /\ delays' = <<>>
  /\ wire' = IF ws # 0 /\ socks'[ws] = "OPEN" THEN [type |-> "register", id |-> ""] ELSE wire
  /\ StartPing
  /\ Notify(TRUE, email, "onopen")
  /\ UNCHANGED <<fnVars, relayVars, obsVars, ws, email, reconnectTimer, rtArmed, connectPending, userDisconnected,
                 lastFrame, bindVars, cmds>>

\* An onclose that reconnects whatever the close code is.
OnCloseAnyCode(s, c) ==
  /\ c \in ClosableWith(socks[s])
  /\ socks' = [socks EXCEPT ![s] = IF ws = s THEN "CLOSED" ELSE "FREE"]
  /\ StopPing
  /\ Notify(FALSE, "", "onclose")
  /\ IF email # ""
     THEN ScheduleReconnect
     ELSE UNCHANGED <<reconnectTimer, rtArmed, reconnectAttempts, delays>>
  /\ UNCHANGED <<fnVars, relayVars, obsVars, ws, email, connectPending, wire, userDisconnected, lastFrame,
                 bindVars, cmds>>

\* onclose of the socket in slot s, with close code c (a failed connection
\* fires onerror first, which changes no state of the manager)
OnClose(s, c) ==
  /\ c \in ClosableWith(socks[s])
  /\ socks' = [socks EXCEPT ![s] = IF ws = s THEN "CLOSED" ELSE "FREE"]
  /\ StopPing
  /\ Notify(FALSE, "", "onclose")
  /\ IF c # NormalClosure /\ email # ""
     THEN ScheduleReconnect
     ELSE UNCHANGED <<reconnectTimer, rtArmed, reconnectAttempts, delays>>
  /\ UNCHANGED <<fnVars, relayVars, obsVars, ws, email, connectPending, wire, userDisconnected, lastFrame,
                 bindVars, cmds>>

\* the reconnect timeout fires: this._reconnectTimer = null; await _doConnect()
ReconnectFireStep ==
  /\ rtArmed > 0
  /\ rtArmed' = rtArmed - 1
  /\ reconnectTimer' = FALSE
  /\ DoConnect
  /\ UNCHANGED <<fnVars, relayVars, email, reconnectAttempts, pingTimer, ptArmed, connectPending,
                 lastStatus, statusBy, statusEmail, lastFrame, wire, delays,
                 userDisconnected, bindVars, cmds>>

\* the reconnect timeout fires, where the socket of the commands is not recorded
ReconnectFire == ReconnectFireStep /\ UNCHANGED obsVars

\* the reconnect timeout fires; this._ws is a new socket for every command in hand
ReconnectFireTraced ==
  /\ ReconnectFireStep
  /\ route' = Rerouted
  /\ UNCHANGED <<ensured, ensuredTwice, listeners, listenerAdds, lastEvent>>

\* the keepalive interval fires
PingFire ==
  /\ ptArmed > 0
  /\ Send([type |-> "ping", id |-> ""])
  /\ UNCHANGED <<fnVars, relayVars, obsVars, socks, ws, email, reconnectAttempts, reconnectTimer, pingTimer,
                 rtArmed, ptArmed, connectPending, lastStatus, statusBy, statusEmail,
                 lastFrame, delays, userDisconnected,
                 bindVars, cmds>>

\* disconnect()
DisconnectStep ==
  /\ reconnectTimer' = FALSE
  /\ rtArmed' = IF reconnectTimer THEN rtArmed - 1 ELSE rtArmed
  /\ StopPing
  /\ socks' = IF ws = 0 THEN socks
              ELSE [socks EXCEPT ![ws] =
                      CASE socks[ws] = "CONNECTING" -> "ABORTED"
                        [] socks[ws] = "OPEN"       -> "CLOSING"
                        [] socks[ws] = "CLOSED"     -> "FREE"
                        [] OTHER                    -> socks[ws]]
  /\ ws' = 0
  /\ Cleanup
  /\ Notify(FALSE, "", "disconnect")
  /\ userDisconnected' = TRUE
  /\ UNCHANGED <<fnVars, relayVars, email, reconnectAttempts, connectPending, wire, delays, lastFrame,
                 tabsOpen, tabsGone, cmds>>

\* disconnect(), where what the attach calls did is not recorded
Disconnect == DisconnectStep /\ UNCHANGED obsVars

\* disconnect(); _cleanup takes the listener off chrome.debugger.onEvent
\* (lines 200-203) and unbinds the tab
DisconnectObserved ==
  /\ DisconnectStep
  /\ listeners' = IF eventListener THEN listeners - 1 ELSE listeners
  /\ ensured' = 0
  /\ ensuredTwice' = FALSE
  /\ UNCHANGED <<listenerAdds, lastEvent, route>>

\* disconnect(); this._ws is null for every command in hand
DisconnectTraced ==
  /\ DisconnectStep
  /\ route' = Rerouted
  /\ UNCHANGED <<ensured, ensuredTwice, listeners, listenerAdds, lastEvent>>

\* ------------------------------------------------------------- browser

\* The user closes tab t: chrome.tabs.onRemoved.  _onTabRemoved of the owner
\* handles the relay mode's connection only; nothing of SidVoiceConnection is
\* told.  The browser ends the debugger session of a closed tab.
TabRemoved(t) ==
  /\ t \in tabsOpen
  /\ tabsOpen' = tabsOpen \ {t}
  /\ tabsGone' = tabsGone \cup {t}
  /\ attached' = attached \ {t}
  /\ UNCHANGED <<fnVars, relayVars, obsVars, connVars, connectedTabId, debuggee, eventListener, cmds>>

\* chrome.debugger.onEvent for a session of this extension on tab t: the
\* listener logs the event when source.tabId === this._connectedTabId
DebuggerEvent(t) ==
  /\ listeners > 0
  /\ t \in attached
  /\ lastEvent' = [tab |-> t, logged |-> t = connectedTabId]
  /\ UNCHANGED <<connVars, bindVars, cmds, fnVars, relayVars, ensured, ensuredTwice,
                 listeners, listenerAdds, route>>

\* ------------------------------------------- pending tab selection

RelayTabs == 1..MaxRelayTabs

\* The tabs that show the connect page and ask for a relay connection.
SelTabs == RelayTabs \ {MaxRelayTabs}
ConnIds == 1..MaxRelayConns

\* setTimeout(..., 5000) of _onTabActivated, in seconds
SelectionTimeout == 5

\* The reasons the extension closes a relay connection with.
Inactive == "Tab has been inactive for 5 seconds"
Another == "Another connection is requested"
TabClosed == "Browser tab closed"
UserDisconnected == "User disconnected"

\* A relay connection not made yet.
NoConn == [state |-> "FREE", sel |-> 0, role |-> "none", closes |-> 0, reason |-> "none"]

\* { connection }: the entry _connectToRelay puts in the Map
Entry(sel, c) == [tab |-> sel, conn |-> c, timerId |-> FALSE]

\* Map.delete(t)
DeleteTab(pend, t) == SelectSeq(pend, LAMBDA e : e.tab # t)

\* Map.has(t)
HasTab(pend, t) == \E j \in 1..Len(pend) : pend[j].tab = t

\* Map.get(t), for a key the Map has
GetTab(pend, t) == pend[CHOOSE j \in 1..Len(pend) : pend[j].tab = t]

\* Map.set(t, e): a key the Map has keeps its place
SetTab(pend, t, e) ==
  IF HasTab(pend, t)
  THEN [j \in 1..Len(pend) |-> IF pend[j].tab = t THEN e ELSE pend[j]]
  ELSE Append(pend, e)

\* The fields of the extension the handlers of the relay mode work on.
Relay == [conns |-> relayConns, pend |-> pendingTabSelection,
          active |-> activeConnection, tabId |-> relayConnectedTabId]

SetRelay(st) ==
  /\ relayConns' = st.conns
  /\ pendingTabSelection' = st.pend
  /\ activeConnection' = st.active
  /\ relayConnectedTabId' = st.tabId

\* connection.onclose of c: the handler _connectToRelay gave it (lines
\* 176-179) or the one _connectTab replaced it with (lines 205-209)
OnCloseHandler(st, c) ==
  IF st.conns[c].role = "pending"
  THEN [st EXCEPT !.pend = DeleteTab(st.pend, st.conns[c].sel)]
  ELSE [st EXCEPT !.active = 0, !.tabId = 0]

\* The connection c closes: onclose runs, once.
Closed(st, c, reason) ==
  IF st.conns[c].state = "OPEN"
  THEN OnCloseHandler([st EXCEPT !.conns[c].state = "CLOSED",
                                 !.conns[c].reason = reason], c)
  ELSE st

\* connection.close(reason) called by the extension
Close(st, c, reason) ==
  Closed([st EXCEPT !.conns[c].closes = Min(@ + 1, 2)], c, reason)

\* this._activeConnection?.close(reason)
CloseActive(st, reason) == IF st.active # 0 THEN Close(st, st.active, reason) ELSE st

\* The relay connection the next _connectToRelay makes.
NextRelayConn == CHOOSE c \in ConnIds :
              relayConns[c].state = "FREE" /\ \A d \in 1..(c - 1) : relayConns[d].state # "FREE"

\* _connectToRelay(selectorTabId, url) once its socket has opened
ConnectToRelay(sel) ==
  /\ sel \notin relayTabsGone
  /\ \E c \in ConnIds : relayConns[c].state = "FREE"
  /\ relayConns' = [relayConns EXCEPT ![NextRelayConn] =
                      [NoConn EXCEPT !.state = "OPEN", !.sel = sel, !.role = "pending"]]
  /\ pendingTabSelection' = SetTab(pendingTabSelection, sel, Entry(sel, NextRelayConn))
  /\ UNCHANGED <<relayTimers, activeConnection, relayConnectedTabId, connectTab, activeTab,
                 relayTabsGone, connVars, bindVars, cmds, fnVars, obsVars>>

\* The relay closes the connection c.
RelayClosed(c) ==
  /\ relayConns[c].state = "OPEN"
  /\ SetRelay(Closed(Relay, c, "remote"))
  /\ UNCHANGED <<relayTimers, connectTab, activeTab, relayTabsGone,
                 connVars, bindVars, cmds, fnVars, obsVars>>

\* _connectTab(selectorTabId, tabId, ...) up to its first await
ConnectTabCall(sel, tab) ==
  /\ connectTab.pc = "idle"
  /\ sel \notin relayTabsGone
  /\ SetRelay([CloseActive(Relay, Another) EXCEPT !.tabId = 0])
  /\ connectTab' = [pc |-> "lookup", sel |-> sel, tab |-> tab]
  /\ UNCHANGED <<relayTimers, activeTab, relayTabsGone, connVars, bindVars, cmds, fnVars, obsVars>>

\* _connectTab from line 199 to the await of line 211, or to its catch
ConnectTabResume ==
  /\ connectTab.pc = "lookup"
  /\ IF HasTab(pendingTabSelection, connectTab.sel)
     THEN LET c == GetTab(pendingTabSelection, connectTab.sel).conn
          IN /\ activeConnection' = c
             /\ pendingTabSelection' = DeleteTab(pendingTabSelection, connectTab.sel)
             /\ relayConns' = [relayConns EXCEPT ![c].role = "active"]
             /\ relayConnectedTabId' = connectTab.tab
             /\ connectTab' = [connectTab EXCEPT !.pc = "update"]
     ELSE /\ activeConnection' = 0
          /\ relayConnectedTabId' = 0
          /\ connectTab' = [pc |-> "idle", sel |-> 0, tab |-> 0]
          /\ UNCHANGED <<pendingTabSelection, relayConns>>
  /\ UNCHANGED <<relayTimers, activeTab, relayTabsGone, connVars, bindVars, cmds, fnVars, obsVars>>

\* _connectTab after Promise.all: chrome.tabs.update rejects for a closed tab
ConnectTabDone ==
  /\ connectTab.pc = "update"
  /\ relayConnectedTabId' = IF connectTab.tab \in relayTabsGone THEN 0
                            ELSE relayConnectedTabId
  /\ connectTab' = [pc |-> "idle", sel |-> 0, tab |-> 0]
  /\ UNCHANGED <<pendingTabSelection, relayConns, relayTimers, activeConnection, activeTab,
                 relayTabsGone, connVars, bindVars, cmds, fnVars, obsVars>>

\* _onTabRemoved(t)
OnTabRemoved(t) ==
  /\ t \notin relayTabsGone
  /\ relayTabsGone' = relayTabsGone \cup {t}
  /\ activeTab' = IF activeTab = t THEN 0 ELSE activeTab
  /\ IF HasTab(pendingTabSelection, t)
     THEN SetRelay(Close([Relay EXCEPT !.pend = DeleteTab(pendingTabSelection, t)],
                         GetTab(pendingTabSelection, t).conn, TabClosed))
     ELSE IF relayConnectedTabId # t
          THEN UNCHANGED <<relayConns, pendingTabSelection, activeConnection,
                           relayConnectedTabId>>
          ELSE SetRelay([CloseActive(Relay, TabClosed) EXCEPT !.active = 0, !.tabId = 0])
  /\ UNCHANGED <<relayTimers, connectTab, connVars, bindVars, cmds, fnVars, obsVars>>

\* The loop of _onTabActivated from the j-th entry of the Map on: the entry
\* of the activated tab t loses its timer, and at the first other entry that
\* has none a timer is armed and the handler returns.
RECURSIVE Activate(_, _, _, _)
Activate(pend, timers, t, j) ==
  IF j > Len(pend) THEN [pend |-> pend, timers |-> timers]
  ELSE IF pend[j].tab = t
       THEN IF pend[j].timerId
            THEN Activate([pend EXCEPT ![j].timerId = FALSE],
                          [timers EXCEPT ![pend[j].conn] = -1], t, j + 1)
            ELSE Activate(pend, timers, t, j + 1)
       ELSE IF ~pend[j].timerId
            THEN [pend |-> [pend EXCEPT ![j].timerId = TRUE],
                  timers |-> [timers EXCEPT ![pend[j].conn] = SelectionTimeout]]
            ELSE Activate(pend, timers, t, j + 1)

\* _onTabActivated({tabId: t})
OnTabActivated(t) ==
  /\ t \notin relayTabsGone
  /\ t # activeTab
  /\ activeTab' = t
  /\ LET a == Activate(pendingTabSelection, relayTimers, t, 1)
     IN /\ pendingTabSelection' = a.pend
        /\ relayTimers' = a.timers
  /\ UNCHANGED <<relayConns, activeConnection, relayConnectedTabId, connectTab,
                 relayTabsGone, connVars, bindVars, cmds, fnVars, obsVars>>

\* A second passes: no armed timer is due.
Tick ==
  /\ \E c \in ConnIds : relayTimers[c] > 0
  /\ \A c \in ConnIds : relayTimers[c] # 0
  /\ relayTimers' = [c \in ConnIds |-> IF relayTimers[c] > 0 THEN relayTimers[c] - 1 ELSE -1]
  /\ UNCHANGED <<pendingTabSelection, relayConns, activeConnection, relayConnectedTabId,
                 connectTab, activeTab, relayTabsGone, connVars, bindVars, cmds, fnVars, obsVars>>

\* The callback of the timer armed for the entry of connection c (lines
\* 270-274): tabId and pending are those of the entry it was armed for.
TimerFire(c) ==
  /\ relayTimers[c] = 0
  /\ relayTimers' = [relayTimers EXCEPT ![c] = -1]
  /\ IF HasTab(pendingTabSelection, relayConns[c].sel)
     THEN SetRelay(Close([Relay EXCEPT !.pend = DeleteTab(pendingTabSelection, relayConns[c].sel)],
                         c, Inactive))
     ELSE UNCHANGED <<relayConns, pendingTabSelection, activeConnection, relayConnectedTabId>>
  /\ UNCHANGED <<connectTab, activeTab, relayTabsGone, connVars, bindVars, cmds, fnVars, obsVars>>

\* _disconnect()
RelayDisconnect ==
  /\ SetRelay([CloseActive(Relay, UserDisconnected) EXCEPT !.active = 0, !.tabId = 0])
  /\ UNCHANGED <<relayTimers, connectTab, activeTab, relayTabsGone,
                 connVars, bindVars, cmds, fnVars, obsVars>>

\* The relay mode after construction.
RelayIdle ==
  /\ pendingTabSelection = <<>>
  /\ relayConns = [c \in ConnIds |-> NoConn]
  /\ relayTimers = [c \in ConnIds |-> -1]
  /\ activeConnection = 0
  /\ relayConnectedTabId = 0
  /\ connectTab = [pc |-> "idle", sel |-> 0, tab |-> 0]
  /\ activeTab = 0
  /\ relayTabsGone = {}

\* ------------------------------------------------- _getTabs and _type

\* A tab of chrome.tabs.query is [id, url]; a url is the sequence of its
\* characters, and NoUrl one that is missing or the empty string.
NoUrl == <<>>

TabUrls ==
  {NoUrl,
   <<"h", "t", "t", "p", "s", ":", "/", "/", "a">>,
   <<"c", "h", "r", "o", "m", "e", ":", "/", "/", "x">>,
   <<"e", "d", "g", "e", ":", "/", "/", "x">>,
   <<"d", "e", "v", "t", "o", "o", "l", "s", ":", "/", "/", "x">>,
   <<"c", "h", "r", "o", "m", "e", "-", "e", "x", "t", "e", "n", "s", "i", "o", "n", ":", "/", "/", "x">>}

\* ['chrome:', 'edge:', 'devtools:']
PrivSchemes ==
  {<<"c", "h", "r", "o", "m", "e", ":">>,
   <<"e", "d", "g", "e", ":">>,
   <<"d", "e", "v", "t", "o", "o", "l", "s", ":">>}

StartsWithExact(u, p) == u = p

\* tab.url.startsWith(scheme)
StartsWith(u, p) == Len(u) >= Len(p) /\ SubSeq(u, 1, Len(p)) = p

\* tab.url && !schemes.some(scheme => tab.url.startsWith(scheme))
Listable(tab) ==
  /\ tab.url # NoUrl
  /\ ~\E scheme \in PrivSchemes : StartsWith(tab.url, scheme)

\* tabs.filter(...).map(...): the map copies id and url
RECURSIVE FilterTabs(_)
FilterTabs(tabs) ==
  IF tabs = <<>> THEN <<>>
  ELSE (IF Listable(Head(tabs)) THEN <<Head(tabs)>> ELSE <<>>) \o FilterTabs(Tail(tabs))

NoListing == [tabs |-> <<>>, connectedTabId |-> 0]

\* _getTabs once chrome.tabs.query has resolved
GetTabs ==
  /\ fnPc = "list"
  /\ listing' = [tabs |-> FilterTabs(queryTabs), connectedTabId |-> connectedTabId]
  /\ fnPc' = "listed"
  /\ UNCHANGED <<connVars, bindVars, cmds, relayVars, obsVars, queryTabs, typeText, typeLiteral, typeParsed>>

\* The characters of a text: a letter, the single quote, the backslash and
\* the line feed.
TextChars == {"a", "'", "\\", "\n"}

ItsATest == <<"i", "t", "'", "s", " ", "a", " ", "t", "e", "s", "t">>

\* text.replace(/'/g, "\\'")
RECURSIVE Escape(_)
Escape(text) ==
  IF text = <<>> THEN <<>>
  ELSE (IF Head(text) = "'" THEN <<"\\", "'">> ELSE <<Head(text)>>) \o Escape(Tail(text))

NoParse == [ok |-> FALSE, value |-> <<>>, rest |-> <<>>]

\* The page reading a single-quoted string literal whose opening quote it
\* has passed: the value up to the closing quote and the source that follows
\* it, or no literal (a syntax error) at a bare line feed or at the end of the
\* source.  A backslash makes the character after it part of the value, and
\* a line feed after it a line continuation.
RECURSIVE ReadLiteral(_, _)
ReadLiteral(src, acc) ==
  IF src = <<>> THEN [ok |-> FALSE, value |-> acc, rest |-> <<>>]
  ELSE IF Head(src) = "'" THEN [ok |-> TRUE, value |-> acc, rest |-> Tail(src)]
  ELSE IF Head(src) = "\n" THEN [ok |-> FALSE, value |-> acc, rest |-> Tail(src)]
  ELSE IF Head(src) = "\\"
       THEN IF Len(src) = 1 THEN [ok |-> FALSE, value |-> acc, rest |-> <<>>]
            ELSE IF src[2] = "\n" THEN ReadLiteral(Tail(Tail(src)), acc)
            ELSE ReadLiteral(Tail(Tail(src)), Append(acc, src[2]))
  ELSE ReadLiteral(Tail(src), Append(acc, Head(src)))

\* What follows the spliced text in the expression: the closing quote and
\* the end of the statement.
LiteralEnd == <<"'", ";">>

\* _type building the expression
TypeEscape ==
  /\ fnPc = "type"
  /\ typeLiteral' = Escape(typeText)
  /\ fnPc' = "escaped"
  /\ UNCHANGED <<connVars, bindVars, cmds, relayVars, obsVars, queryTabs, listing, typeText, typeParsed>>

\* Runtime.evaluate: the page parses the expression
TypeEvaluate ==
  /\ fnPc = "escaped"
  /\ typeParsed' = ReadLiteral(typeLiteral \o LiteralEnd, <<>>)
  /\ fnPc' = "parsed"
  /\ UNCHANGED <<connVars, bindVars, cmds, relayVars, obsVars, queryTabs, listing, typeText, typeLiteral>>

FnIdle ==
  /\ queryTabs = <<>>
  /\ listing = NoListing
  /\ typeText = <<>>
  /\ typeLiteral = <<>>
  /\ typeParsed = NoParse

InitManager ==
  /\ socks = [s \in Slots |-> "FREE"]
  /\ ws = 0
  /\ email \in Emails
  /\ reconnectAttempts = 0
  /\ reconnectTimer = FALSE
  /\ pingTimer = FALSE
  /\ rtArmed = 0
  /\ ptArmed = 0
  /\ connectPending = 0
  /\ lastStatus = "none"
  /\ statusBy = "none"
  /\ statusEmail = ""
  /\ lastFrame = "none"
  /\ wire = [type |-> "none", id |-> ""]
  /\ delays = <<>>
  /\ userDisconnected = FALSE
  /\ debuggee = 0
  /\ eventListener = FALSE
  /\ tabsOpen = {1}
  /\ tabsGone = {}
  /\ attached = {}
  /\ cmds = [c \in CmdSlots |-> IdleCmd]
  /\ RelayIdle
  /\ ensured = 0
  /\ ensuredTwice = FALSE
  /\ route = [c \in CmdSlots |-> "none"]
  /\ listeners = 0
  /\ listenerAdds = 0
  /\ lastEvent = [tab |-> 0, logged |-> FALSE]

Init ==
  /\ InitManager
  /\ connectedTabId = 0
  /\ FnIdle
  /\ fnPc = "idle"

\* The tabs chrome.tabs.query can resolve with: up to MaxListTabs tabs,
\* numbered as they come.
TabLists ==
  UNION {{[k \in 1..n |-> [id |-> k, url |-> u[k]]] : u \in [1..n -> TabUrls]} :
         n \in 0..MaxListTabs}

\* _getTabs alone, over every answer of chrome.tabs.query and with a tab
\* bound or none.
InitList ==
  /\ InitManager
  /\ connectedTabId \in {0, 1}
  /\ queryTabs \in TabLists
  /\ listing = NoListing
  /\ typeText = <<>>
  /\ typeLiteral = <<>>
  /\ typeParsed = NoParse
  /\ fnPc = "list"

NextList == GetTabs

SpecList == InitList /\ [][NextList]_vars

\* The texts of up to MaxTextLen characters, and the text of the spec's
\* scenario.
Texts == UNION {[1..n -> TextChars] : n \in 0..MaxTextLen} \cup {ItsATest}

\* _type alone, over every text.
InitType ==
  /\ InitManager
  /\ connectedTabId = 1
  /\ queryTabs = <<>>
  /\ listing = NoListing
  /\ typeText \in Texts
  /\ typeLiteral = <<>>
  /\ typeParsed = NoParse
  /\ fnPc = "type"

NextType ==
  \/ TypeEscape
  \/ TypeEvaluate

SpecType == InitType /\ [][NextType]_vars

\* The connection manager alone: no command arrives, no tab closes.
NextConn ==
  \/ \E e \in Identities : ConnectCall(e)
  \/ ConnectResume
  \/ ConnectStorageFail
  \/ \E s \in Slots : OnOpen(s)
  \/ \E s \in Slots, c \in CloseCodes : OnClose(s, c)
  \/ ReconnectFire
  \/ PingFire
  \/ Disconnect

SpecConn == Init /\ [][NextConn]_vars

\* The bound of the whole system: few reconnects in a row, and a new transport
\* only once the event closing the previous one was delivered.
Busy ==
  /\ reconnectAttempts <= MaxAttemptsBusy
  /\ Cardinality({s \in Slots : socks[s] \in LiveStates}) <= MaxLiveBusy

\* Fewer than MaxCmds commands are being handled.
CmdsFree == Cardinality({c \in CmdSlots : cmds[c].pc \notin {"idle", "done"}}) < MaxCmds

\* The whole system: the connection manager, the commands and the tabs.
Next ==
  \/ \E e \in Identities : ConnectCall(e)
  \/ ConnectResume /\ Busy'
  \/ ConnectStorageFail
  \/ \E s \in Slots : OnOpen(s)
  \/ \E s \in Slots, c \in CloseCodes : OnClose(s, c) /\ Busy'
  \/ ReconnectFire /\ Busy'
  \/ PingFire
  \/ Disconnect
  \/ \E s \in Slots, k \in Kinds, i \in CorrIds, t \in TabArgs :
       CmdsFree /\ RecvCommand(s, k, i, t)
  \/ \E c \in CmdSlots : CmdResume(c)
  \/ \E t \in Tabs : TabRemoved(t)

Spec == Init /\ [][Next]_vars

\* The connection manager and the frames that are not commands.
NextConnFrames ==
  \/ NextConn
  \/ \E s \in Slots, f \in FrameTypes : RecvFrame(s, f)

SpecConnFrames == Init /\ [][NextConnFrames]_vars

\* The whole system and the frames onmessage cannot parse.
NextFrames ==
  \/ Next
  \/ \E s \in Slots : RecvFrame(s, "malformed")

SpecFrames == Init /\ [][NextFrames]_vars

\* The state once connect("u") has resolved and the transport has opened.
InitAttach ==
  /\ socks = [s \in Slots |-> IF s = 1 THEN "OPEN" ELSE "FREE"]
  /\ ws = 1
  /\ email = "u"
  /\ reconnectAttempts = 0
  /\ reconnectTimer = FALSE
  /\ pingTimer = TRUE
  /\ rtArmed = 0
  /\ ptArmed = 1
  /\ connectPending = 0
  /\ lastStatus = "connected"
  /\ statusBy = "onopen"
  /\ statusEmail = "u"
  /\ lastFrame = "none"
  /\ wire = [type |-> "register", id |-> ""]
  /\ delays = <<>>
  /\ userDisconnected = FALSE
  /\ connectedTabId = 0
  /\ debuggee = 0
  /\ eventListener = FALSE
  /\ tabsOpen = {1}
  /\ tabsGone = {}
  /\ attached = {}
  /\ cmds = [c \in CmdSlots |-> IdleCmd]
  /\ RelayIdle
  /\ ensured = 0
  /\ ensuredTwice = FALSE
  /\ route = [c \in CmdSlots |-> "none"]
  /\ listeners = 0
  /\ listenerAdds = 0
  /\ lastEvent = [tab |-> 0, logged |-> FALSE]
  /\ FnIdle
  /\ fnPc = "idle"

\* The commands that bind a tab or need the debugger session.
BindKinds == {"navigate", "selectTab"} \cup AttachKinds

\* The commands on a connection that stays open, up to MaxCmdsAttach of
\* them at the same time, the tabs and the debugger events.
NextAttach ==
  \/ \E s \in Slots, k \in BindKinds, t \in TabArgs :
       RecvCommandObserved(s, k, "a", t)
  \/ \E c \in CmdSlots : CmdResumeObserved(c)
  \/ \E t \in Tabs : TabRemoved(t)
  \/ \E t \in Tabs : DebuggerEvent(t)

SpecAttach == InitAttach /\ [][NextAttach]_vars

\* The commands one at a time, the tabs, and disconnect() and connect().
NextSession ==
  \/ \E s \in Slots, k \in BindKinds, t \in TabArgs :
       CmdsFree /\ RecvCommandObserved(s, k, "a", t)
  \/ \E c \in CmdSlots : CmdResumeObserved(c)
  \/ \E t \in Tabs : TabRemoved(t)
  \/ DisconnectObserved
  \/ \E e \in Identities : userDisconnected /\ ConnectCall(e)
  \/ ConnectResume
  \/ \E s \in Slots : OnOpen(s)

SpecSession == InitAttach /\ [][NextSession]_vars

\* The commands that await a browser call or answer at once.
RouteKinds == {"navigate", "getTabs", "selectTab", "click", "frobnicate"}

\* The commands one at a time while the transport is closed, reconnected,
\* disconnected and connected again: one live socket at a time.
NextTransport ==
  \/ \E s \in Slots, k \in RouteKinds, t \in TabArgs :
       CmdsFree /\ RecvCommandTraced(s, k, "a", t)
  \/ \E c \in CmdSlots : CmdResumeTraced(c)
  \/ \E s \in Slots : OnOpen(s)
  \/ \E s \in Slots, c \in CloseCodes : OnClose(s, c) /\ Busy'
  \/ ReconnectFireTraced /\ Busy'
  \/ DisconnectTraced
  \/ \E e \in Identities : ConnectCall(e)
  \/ ConnectResumeTraced /\ Busy'

SpecTransport == InitAttach /\ [][NextTransport]_vars

\* The relay mode alone: the pending tab selections, their timers and the
\* connections they hold.
NextRelay ==
  \/ \E sel \in SelTabs : ConnectToRelay(sel)
  \/ \E c \in ConnIds : RelayClosed(c)
  \/ \E sel \in SelTabs, tab \in RelayTabs : ConnectTabCall(sel, tab)
  \/ ConnectTabResume
  \/ ConnectTabDone
  \/ \E t \in RelayTabs : OnTabRemoved(t)
  \/ \E t \in RelayTabs : OnTabActivated(t)
  \/ Tick
  \/ \E c \in ConnIds : TimerFire(c)
  \/ RelayDisconnect

InitRelay == Init /\ email = "u"

SpecRelay == InitRelay /\ [][NextRelay]_vars

\* ---------------------------------------------------------------- types

TypeOK ==
  /\ socks \in [Slots -> SockStates]
  /\ ws \in 0..MaxSockets
  /\ email \in Emails
  /\ reconnectAttempts \in 0..MaxAttempts
  /\ reconnectTimer \in BOOLEAN /\ pingTimer \in BOOLEAN
  /\ rtArmed \in Nat /\ ptArmed \in Nat
  /\ connectPending \in 0..MaxPendingConnects
  /\ lastStatus \in {"none", "connected", "disconnected"}
  /\ statusBy \in {"none", "onopen", "onclose", "disconnect"}
  /\ statusEmail \in Emails
  /\ lastFrame \in {"none"} \cup FrameTypes
  /\ connectedTabId \in 0..MaxTabs /\ debuggee \in 0..MaxTabs
  /\ eventListener \in BOOLEAN
  /\ tabsOpen \subseteq Tabs /\ tabsGone \subseteq Tabs /\ attached \subseteq Tabs
  /\ fnPc \in {"idle", "list", "listed", "type", "escaped", "parsed"}

\* --------------------------------------------------------------- claims

\* this._ws refers to a transport that is connecting or open
Connected(ss) == {s \in Slots : ss[s] \in {"CONNECTING", "OPEN"}}

\* C1: disconnect() leaves no reconnect timer armed, and from disconnect()
\* to the next connect() call the reconnect timer never fires into a new
\* transport, whatever close events arrive in between.
C1_NoReconnectAfterDisconnect ==
  [][/\ Disconnect => (~reconnectTimer' /\ rtArmed' = 0)
     /\ userDisconnected => ~ReconnectFire]_vars

C3_CounterEveryClosure ==
  [][/\ \A s \in Slots : OnOpen(s) => reconnectAttempts' = 0
     /\ \A s \in Slots, c \in CloseCodes :
          (OnClose(s, c) /\ c # 1000 /\ email # "")
            => reconnectAttempts' = reconnectAttempts + 1]_vars

\* C4: at most one reconnect timer and at most one keepalive timer is armed.
C4_TimersSinglyOwned == rtArmed <= 1 /\ ptArmed <= 1

\* C4 witness: both timers are armed, the keepalive armed again by the open
\* of a second transport while the first is open.
C4_Witness ==
  /\ rtArmed = 1 /\ ptArmed = 1
  /\ Cardinality({s \in Slots : socks[s] = "OPEN"}) = 2

\* C5: at most one transport of the manager is connecting or open.
C5_OneTransport == Cardinality(Connected(socks)) <= 1

\* C6: a closure with code 1000 leaves the reconnect timer and the attempt
\* counter as they are; a closure with another code, an identity configured,
\* leaves a reconnect timer armed.
C6_NormalClosureNoReconnect ==
  [][\A s \in Slots, c \in CloseCodes :
       OnClose(s, c) =>
         IF c = 1000
         THEN UNCHANGED <<reconnectTimer, rtArmed, reconnectAttempts, delays>>
         ELSE email # "" => (reconnectTimer' /\ rtArmed' = 1)]_vars

\* C6 witness: an open transport was closed abnormally and a first reconnect
\* is scheduled.
C6_Witness ==
  /\ reconnectTimer /\ rtArmed = 1 /\ delays = <<1000>>
  /\ lastStatus = "disconnected" /\ ws # 0 /\ socks[ws] = "CLOSED"

\* The state disconnect() leaves: no timer, no transport, no binding.
Disconnected ==
  /\ ~reconnectTimer /\ rtArmed = 0
  /\ ~pingTimer /\ ptArmed = 0
  /\ ws = 0
  /\ debuggee = 0 /\ connectedTabId = 0 /\ ~eventListener
  /\ lastStatus = "disconnected"

\* C7: disconnect() never fails; it leaves no timer armed, the transport it
\* held closing or closed, the attach session detached and no tab bound; a
\* disconnect() from such a state changes nothing.
C7_DisconnectIdempotent ==
  /\ [](ENABLED Disconnect)
  /\ [][Disconnect =>
          /\ Disconnected'
          /\ ws # 0 => socks'[ws] \notin {"CONNECTING", "OPEN"}
          /\ debuggee # 0 => debuggee \notin attached'
          /\ (Disconnected /\ userDisconnected) =>
                UNCHANGED <<socks, ws, email, reconnectAttempts, reconnectTimer, pingTimer,
                            rtArmed, ptArmed, connectPending, lastStatus, statusEmail,
                            lastFrame, wire, delays, userDisconnected, bindVars, cmds,
                            fnVars, relayVars, obsVars>>]_vars

\* C7 witness: disconnect() closed an open transport while a tab made by
\* navigate was there, and nothing is armed or bound.
C7_Witness ==
  /\ userDisconnected /\ Disconnected
  /\ \E s \in Slots : socks[s] = "CLOSING"
  /\ 2 \in tabsOpen

\* C8: after the close event of a transport the remote side closed, the
\* keepalive timer is cancelled, no reconnect timer is armed unless the close
\* code asks for a reconnect, no attach session is left and no tab is bound.
C8_RemoteCloseCancelsAll ==
  [][\A s \in Slots, c \in CloseCodes :
       (OnClose(s, c) /\ socks[s] = "OPEN") =>
          /\ ~pingTimer' /\ ptArmed' = 0
          /\ c = 1000 => (~reconnectTimer' /\ rtArmed' = 0)
          /\ debuggee' = 0 /\ connectedTabId' = 0]_vars

\* C9: after the bound tab was closed no tab is bound and no attach session
\* is recorded.
C9_TargetClosedDestroysBinding ==
  [][\A t \in Tabs :
       (TabRemoved(t) /\ connectedTabId = t) =>
          (connectedTabId' = 0 /\ debuggee' = 0)]_vars

\* C10 as claimed: every command whose handling ended had its response sent.
C10_ExactlyOneResponse ==
  \A c \in CmdSlots : cmds[c].pc = "done" => cmds[c].resp = 1

\* C10 as amended: when the handling of a command ends, its response, with
\* the command's id, is sent once if this._ws is open at that moment, and is
\* not sent at all otherwise.
C10_OneResponseIfOpen ==
  [][/\ \A c \in CmdSlots :
          (CmdResume(c) /\ cmds'[c].pc = "done") =>
             /\ cmds'[c].id = cmds[c].id
             /\ IF WsOpen
                THEN cmds'[c].resp = 1 /\ wire' = [type |-> "response", id |-> cmds[c].id]
                ELSE cmds'[c].resp = 0 /\ wire' = wire
     /\ \A s \in Slots :
          (socks[s] = "OPEN" /\ FreeCmdSlots # {} /\ cmds'[NextCmdSlot].pc = "done") =>
             \A k \in Kinds, i \in CorrIds, t \in TabArgs :
                RecvCommand(s, k, i, t) =>
                  /\ cmds'[NextCmdSlot].id = i
                  /\ IF WsOpen
                     THEN /\ cmds'[NextCmdSlot].resp = 1
                          /\ wire' = [type |-> "response", id |-> i]
                     ELSE cmds'[NextCmdSlot].resp = 0 /\ wire' = wire]_vars

\* C10 witness: a command's handling ended with no open transport and its
\* response was not sent.
C10_Witness ==
  \E c \in CmdSlots : cmds[c].pc = "done" /\ cmds[c].resp = 0 /\ ~WsOpen

\* C11 as claimed: a registered frame makes the connected notification, with
\* the identity, and the open of the transport before it makes none.
C11_ConnectedByHandshakeAck ==
  [][/\ \A s \in Slots :
          RecvFrame(s, "registered") =>
            (lastStatus' = "connected" /\ statusEmail' = email)
     /\ \A s \in Slots :
          OnOpen(s) => UNCHANGED <<lastStatus, statusBy, statusEmail>>]_vars

\* C11 as amended: the connected notification, with the identity, is made by
\* the open of the transport and by nothing else; a registered frame notifies
\* nobody and changes no state of the manager.
C11_ConnectedByOpen ==
  /\ [](lastStatus = "connected" => (statusBy = "onopen" /\ statusEmail # ""))
  /\ [][/\ \A s \in Slots :
             OnOpen(s) => /\ lastStatus' = "connected"
                          /\ statusBy' = "onopen"
                          /\ statusEmail' = email
        /\ \A s \in Slots :
             RecvFrame(s, "registered") =>
               UNCHANGED <<socks, ws, email, reconnectAttempts, reconnectTimer,
                           pingTimer, rtArmed, ptArmed, connectPending, lastStatus,
                           statusBy, statusEmail, wire, bindVars, cmds>>]_vars

\* C11 witness: a registered frame was received on a transport whose open had
\* made the connected notification.
C11_Witness ==
  /\ lastFrame = "registered"
  /\ lastStatus = "connected" /\ statusBy = "onopen" /\ statusEmail = "u"

\* C12: every open of a transport, the first or one after a reconnect,
\* notifies connected with the identity; every closure, the ones that schedule
\* a reconnect included, and every disconnect() notifies disconnected.
C12_StatusOnEveryTransition ==
  [][/\ \A s \in Slots :
          OnOpen(s) => /\ lastStatus' = "connected" /\ statusBy' = "onopen"
                       /\ statusEmail' = email /\ email # ""
     /\ \A s \in Slots, c \in CloseCodes :
          OnClose(s, c) => (lastStatus' = "disconnected" /\ statusBy' = "onclose")
     /\ Disconnect => (lastStatus' = "disconnected" /\ statusBy' = "disconnect")]_vars

\* C12 witness: the closure of a transport that had opened and registered
\* was notified, and the reconnect is scheduled.
C12_Witness ==
  /\ lastStatus = "disconnected" /\ statusBy = "onclose"
  /\ reconnectTimer /\ delays = <<1000>> /\ ~userDisconnected
  /\ ws # 0 /\ socks[ws] = "CLOSED" /\ lastFrame = "registered"

\* C13: a malformed frame changes no state of the connection or of the
\* binding, sends no frame and disturbs no command being handled; after it,
\* a command frame arriving on an open transport is still taken up.
C13_MalformedFrameDropped ==
  /\ [][\A s \in Slots :
          RecvFrame(s, "malformed") =>
            UNCHANGED <<socks, ws, email, reconnectAttempts, reconnectTimer,
                        pingTimer, rtArmed, ptArmed, connectPending, lastStatus,
                        statusBy, statusEmail, wire, delays, bindVars, cmds>>]_vars
  /\ [](\A s \in Slots :
          (lastFrame = "malformed" /\ socks[s] = "OPEN" /\ FreeCmdSlots # {}) =>
             \A k \in Kinds \ {"navigate"} : ENABLED RecvCommand(s, k, "a", 1))

\* C13 witness: a malformed frame came in while a command was being handled
\* on the open transport, and the command goes on.
C13_Witness ==
  /\ lastFrame = "malformed" /\ WsOpen
  /\ \E c \in CmdSlots : cmds[c].pc = "ens_attach_ok" /\ ENABLED CmdResume(c)

\* A BrowserResponse is well formed: a success without an error, or a
\* failure with an error message.
WellFormed(r) ==
  /\ r.success \in BOOLEAN
  /\ r.success => r.error = <<>>
  /\ ~r.success => r.error # <<>>

\* C14: the handling of every command, whatever its kind and parameters and
\* whatever the browser calls answer, can always go on and ends with a well
\* formed response; a command of an unknown kind k is answered at once with
\* the failure "Unknown command: k".
C14_DispatcherNeverThrows ==
  /\ [](\A c \in CmdSlots :
          /\ cmds[c].pc = "done" => WellFormed(cmds[c].res)
          /\ cmds[c].pc \notin {"idle", "done"} => ENABLED CmdResume(c))
  /\ [][\A s \in Slots, i \in CorrIds, t \in TabArgs :
          RecvCommand(s, "frobnicate", i, t) =>
            /\ cmds'[NextCmdSlot].pc = "done"
            /\ cmds'[NextCmdSlot].res =
                 [success |-> FALSE, error |-> <<"Unknown command: ", "frobnicate">>,
                  tabId |-> 0]]_vars

\* C14 witness: a command of an unknown kind was answered with its failure
\* while a tab was bound.
C14_Witness ==
  \E c \in CmdSlots :
    /\ cmds[c].pc = "done" /\ cmds[c].resp = 1 /\ ~cmds[c].res.success
    /\ cmds[c].res.error = <<"Unknown command: ", "frobnicate">>
    /\ connectedTabId # 0

\* The program counters of a navigate command.
NavPcs == {"nav_upd_ok", "nav_upd_err", "nav_created"}

\* C15: a navigate that finds a tab bound creates no tab and leaves the
\* binding as it is; one that finds none bound creates exactly one tab and
\* binds it; either way its response is a success carrying the bound tab's id.
C15_NavigateBindsAndReturns ==
  [][/\ \A s \in Slots, i \in CorrIds, t \in TabArgs :
          RecvCommand(s, "navigate", i, t) =>
            IF connectedTabId # 0
            THEN tabsOpen' = tabsOpen /\ connectedTabId' = connectedTabId
            ELSE Cardinality(tabsOpen' \ tabsOpen) = 1
     /\ \A c \in CmdSlots :
          (CmdResume(c) /\ cmds[c].pc \in NavPcs) =>
            /\ cmds'[c].pc = "done" /\ cmds'[c].res.success
            /\ connectedTabId' # 0 /\ cmds'[c].res.tabId = connectedTabId'
            /\ connectedTabId' = IF cmds[c].pc = "nav_created" THEN cmds[c].tab
                                 ELSE connectedTabId]_vars

C17_PrivilegedNeverBound == connectedTabId \notin PrivTabs

\* The address uses one of the privileged schemes: its part up to the first
\* colon, the colon included, is one of them.
PrivilegedAddr(u) ==
  \E n \in 1..Len(u) :
    /\ u[n] = ":"
    /\ \A m \in 1..(n - 1) : u[m] # ":"
    /\ SubSeq(u, 1, n) \in PrivSchemes

\* listing holds, in the order of queryTabs and unchanged, the tabs at the
\* positions want, and the bound tab.
ListsExactly(want) ==
  /\ listing.connectedTabId = connectedTabId
  /\ Len(listing.tabs) = Cardinality(want)
  /\ {listing.tabs[j].id : j \in 1..Len(listing.tabs)} = want
  /\ \A j \in 1..Len(listing.tabs) : listing.tabs[j] = queryTabs[listing.tabs[j].id]
  /\ \A i, j \in 1..Len(listing.tabs) : i < j => listing.tabs[i].id < listing.tabs[j].id

\* C18 as stated: the listing holds exactly the open tabs whose address does
\* not use a privileged scheme, with the bound tab; of 5 open tabs of which
\* 2 use such a scheme it holds 3; and the listing changes no state.
C18_ListsEveryNonPrivileged ==
  /\ [](fnPc = "listed" =>
          /\ ListsExactly({k \in 1..Len(queryTabs) : ~PrivilegedAddr(queryTabs[k].url)})
          /\ (/\ Len(queryTabs) = 5
              /\ Cardinality({k \in 1..5 : PrivilegedAddr(queryTabs[k].url)}) = 2)
                => Len(listing.tabs) = 3)
  /\ [][GetTabs => UNCHANGED <<connVars, bindVars, cmds, queryTabs>>]_vars

\* C18: the listing holds exactly the open tabs that have an address and
\* whose address does not use a privileged scheme, in the browser's order,
\* with the bound tab; of 5 open tabs with an address of which 2 use such a
\* scheme it holds 3; and the listing changes no state.
C18_ListsAddressedNonPrivileged ==
  /\ [](fnPc = "listed" =>
          /\ ListsExactly({k \in 1..Len(queryTabs) :
                             /\ queryTabs[k].url # NoUrl
                             /\ ~PrivilegedAddr(queryTabs[k].url)})
          /\ (/\ Len(queryTabs) = 5
              /\ \A k \in 1..5 : queryTabs[k].url # NoUrl
              /\ Cardinality({k \in 1..5 : PrivilegedAddr(queryTabs[k].url)}) = 2)
                => Len(listing.tabs) = 3)
  /\ [][GetTabs => UNCHANGED <<connVars, bindVars, cmds, queryTabs>>]_vars

\* Five tabs with an address, two of them privileged, were listed with a tab
\* bound: three are in the listing, among them one whose scheme only begins
\* like a privileged one.
C18_Witness ==
  /\ fnPc = "listed"
  /\ Len(queryTabs) = 5
  /\ \A k \in 1..5 : queryTabs[k].url # NoUrl
  /\ Cardinality({k \in 1..5 : PrivilegedAddr(queryTabs[k].url)}) = 2
  /\ Len(listing.tabs) = 3
  /\ \E j \in 1..3 : listing.tabs[j].url[1] = "c"
  /\ listing.connectedTabId = 1

\* C19: a click, type, snapshot or screenshot that finds no tab bound is
\* answered at once with the failure "No tab connected"; it attaches and
\* detaches nothing, sends no debugger command and leaves the binding as it is.
C19_NoTabBound ==
  [][\A s \in Slots :
       (connectedTabId = 0 /\ socks[s] = "OPEN") =>
          \A k \in {"click", "type", "snapshot", "screenshot"},
             i \in CorrIds, t \in TabArgs :
            RecvCommand(s, k, i, t) =>
              /\ cmds'[NextCmdSlot].pc = "done"
              /\ cmds'[NextCmdSlot].res =
                   [success |-> FALSE, error |-> <<"No tab connected">>, tabId |-> 0]
              /\ UNCHANGED bindVars]_vars

\* C19 witness: a command that needs a tab was answered "No tab connected"
\* while none was bound.
C19_Witness ==
  /\ connectedTabId = 0 /\ debuggee = 0
  /\ \E c \in CmdSlots :
       /\ cmds[c].pc = "done" /\ cmds[c].resp = 1
       /\ cmds[c].res.error = <<"No tab connected">>

\* C20: whatever the text, the page reads the spliced literal back as exactly
\* that text, and the literal ends at the closing quote the expression puts
\* after it, not before.
C20_EscapingRoundTrips ==
  fnPc = "parsed" => typeParsed = [ok |-> TRUE, value |-> typeText, rest |-> <<";">>]

\* C24: whenever a debugger session is attached, the tab it is attached to
\* is the bound tab.
C24_SessionMatchesBinding ==
  (debuggee # 0 /\ debuggee \in attached) => debuggee = connectedTabId

\* C25: at most one tab is attached at a time; an attach is issued only when
\* no session is attached and no other attach is awaited; and no debugger
\* command is issued while an attach is still awaited.
C25_NoAttachRace ==
  /\ [](Cardinality(attached) <= 1)
  /\ [][\A c \in CmdSlots :
          /\ (cmds[c].pc \notin AttachPcs /\ cmds'[c].pc \in AttachPcs) =>
                /\ attached \ {debuggee} = {}
                /\ ~\E d \in CmdSlots \ {c} : cmds[d].pc \in AttachPcs
          /\ (cmds[c].pc \notin EvalPcs /\ cmds'[c].pc \in EvalPcs) =>
                ~\E d \in CmdSlots \ {c} : cmds'[d].pc \in AttachPcs]_vars

\* C26: an _ensureDebuggerAttached called for the bound tab after one has
\* returned for it, with no rebinding in between, issues no attach and no
\* detach and goes on to the debugger command: the two calls make one attach.
C26_EnsureIdempotent ==
  [][\A s \in Slots :
       (socks[s] = "OPEN" /\ ensured # 0 /\ ensured = connectedTabId /\ FreeCmdSlots # {}) =>
          \A k \in AttachKinds, i \in CorrIds, t \in TabArgs :
             RecvCommandObserved(s, k, i, t) =>
                /\ cmds'[NextCmdSlot].pc \in EvalPcs
                /\ attached' = attached
                /\ debuggee' = debuggee]_vars

\* C26 witness: a second call was made for the tab the first one attached,
\* and its command awaits the debugger's answer on the one session there is.
C26_Witness ==
  /\ ensuredTwice /\ ensured # 0 /\ ensured = connectedTabId
  /\ attached = {ensured} /\ debuggee = ensured
  /\ listenerAdds = 1
  /\ \E c \in CmdSlots : cmds[c].pc = "act_eval_ok"

\* C27: a rebinding detaches first, so once another tab is bound no debugger
\* event tagged for a tab attached earlier reaches the event listener.
C27_NoEventOfPriorTarget ==
  [][\A t \in Tabs :
       (connectedTabId # 0 /\ connectedTabId # t) => ~DebuggerEvent(t)]_vars

\* C28 as stated: over attach, rebind, disconnect and reconnect the listener
\* is registered at most once in the lifetime of the object.
C28_RegisteredOnce == listenerAdds <= 1

\* C28: at most one event listener is registered at any time, and one is
\* registered only when none is: disconnect() removes it and the first attach
\* after it registers one again.
C28_OneListenerAtATime ==
  /\ [](listeners <= 1)
  /\ [][listeners' > listeners => (listeners = 0 /\ ~eventListener)]_vars

\* C28 witness: the listener was registered, removed by disconnect() and
\* registered again by an attach after the reconnection.
C28_Witness == listenerAdds = 2 /\ listeners = 1 /\ eventListener /\ debuggee \in attached

\* C29: when an attach attempt has failed, this._debuggee is not left naming
\* a tab without a session, so that the next click, type or snapshot on the
\* bound tab attaches again instead of taking the session for granted.
C29_FailedAttachNotRecorded ==
  [][\A c \in CmdSlots :
       (cmds[c].pc = "ens_attach_err" /\ cmds'[c].pc # "ens_attach_err") =>
          (debuggee' = 0 \/ debuggee' \in attached')]_vars

\* The entry the timer of connection c was armed for is in the tracker.
Tracked(c) == \E j \in 1..Len(pendingTabSelection) : pendingTabSelection[j].conn = c

\* C21: a timer that comes due removes the entry it was armed for and closes
\* that entry's connection, once and with the inactivity reason; and an
\* activation of an entry's tab before its timer is due cancels the timer.
C21_EvictionAfterTimeout ==
  [][/\ \A c \in ConnIds :
          (TimerFire(c) /\ Tracked(c)) =>
             /\ ~\E j \in 1..Len(pendingTabSelection') : pendingTabSelection'[j].conn = c
             /\ relayConns'[c].state = "CLOSED"
             /\ relayConns'[c].closes = 1
             /\ relayConns'[c].reason = Inactive
     /\ \A t \in RelayTabs :
          OnTabActivated(t) =>
             \A j \in 1..Len(pendingTabSelection) :
                pendingTabSelection[j].tab = t =>
                   relayTimers'[pendingTabSelection[j].conn] = -1]_vars

\* C22: an activation of a tab confirms the entry of that tab: its timer is
\* cancelled and the entry leaves the tracker.
C22_ForegroundConfirms ==
  [][\A t \in RelayTabs :
       OnTabActivated(t) =>
          /\ ~HasTab(pendingTabSelection', t)
          /\ \A j \in 1..Len(pendingTabSelection) :
                pendingTabSelection[j].tab = t =>
                   relayTimers'[pendingTabSelection[j].conn] = -1]_vars

\* C23: after an activation every tracked entry of another tab has a running
\* timer, and one that had none has the whole timeout before it.
C23_OthersGetTimers ==
  [][\A t \in RelayTabs :
       OnTabActivated(t) =>
          \A j \in 1..Len(pendingTabSelection) :
             pendingTabSelection[j].tab # t =>
                /\ pendingTabSelection'[j].timerId
                /\ relayTimers'[pendingTabSelection[j].conn] >= 0
                /\ ~pendingTabSelection[j].timerId =>
                      relayTimers'[pendingTabSelection[j].conn] = SelectionTimeout]_vars

\* C30: a timer that comes due when the entry it was armed for has left the
\* tracker removes no entry and closes no connection; and no connection that
\* was made the active one is ever closed with the inactivity reason.
C30_TimerEvictsOwnEntryOnly ==
  /\ [][\A c \in ConnIds :
          (TimerFire(c) /\ ~Tracked(c)) => UNCHANGED <<pendingTabSelection, relayConns>>]_vars
  /\ [](\A c \in ConnIds : relayConns[c].role = "active" => relayConns[c].reason # Inactive)

\* No event of the manager is pending: no socket awaits its open or close
\* event, no connect() is suspended, no reconnect timeout is armed, and no
\* socket but the current one is open.
NoEventPending ==
  /\ \A s \in Slots : socks[s] \in {"FREE", "OPEN", "CLOSED"}
  /\ \A s \in Slots : socks[s] = "OPEN" => s = ws
  /\ connectPending = 0
  /\ rtArmed = 0

\* C32: when no event is pending, the last onStatusChange call said connected
\* exactly when this._ws is open; the late close event of a superseded or an
\* explicitly closed socket does not leave observers with disconnected while
\* this._ws is open.
C32_StatusAgreesWithTransport ==
  NoEventPending => (lastStatus = "connected" <=> WsOpen)

\* C33: while this._ws is open the keepalive interval is armed; the close
\* event of an earlier socket does not cancel it.
C33_KeepaliveWhileOpen ==
  WsOpen => (pingTimer /\ ptArmed >= 1)

\* C31: a response goes out only on the socket its command arrived on; when
\* the socket was closed and another one opened while the command was being
\* handled, the response is not sent on the new one.
C31_ResponseOnArrivalSocket ==
  \A c \in CmdSlots : route[c] # "sent_other"

====
